---- MODULE Spec2Model ----
(***************************************************************************)
(* RealTimeServer (src/src/server/real_time_server.js): the registry of    *)
(* live connections, the three outbound sends, the inbound relay and the   *)
(* four events, driven either by the public methods or by the callbacks    *)
(* the transport invokes.  Node runs every method and callback to          *)
(* completion, so each of them is one atomic action.                       *)
(*                                                                         *)
(* Client ids are the opaque tokens of the transport (and the ids a test   *)
(* passes to connectNullClient); undefined is modelled as a token of its   *)
(* own.  A JavaScript object is a handle with an identity: sn is that      *)
(* identity, so two handles with the same id are still two handles.        *)
(***************************************************************************)
EXTENDS Integers, Sequences, FiniteSets, TLC

\* ------------------------------------------------------------- bounds
\* How many transport handles (NullSocket or socket.io socket) a run creates.
MaxSockets == 2

\* ------------------------------------------------------------- values
UndefinedId == "undefined"
ClientIds == {"c1", "c2"}
Ids == ClientIds \cup {UndefinedId}

\* The value a field holds before anything was assigned to it.
Undefined == [undefined |-> TRUE]

EVENT ==
  [CLIENT_DISCONNECT |-> "clientDisconnect",
   CLIENT_CONNECT |-> "clientConnect",
   CLIENT_MESSAGE |-> "clientMessage",
   SERVER_MESSAGE |-> "serverMessage"]

SEND_TYPE ==
  [ONE_CLIENT |-> "one_client",
   ALL_CLIENTS |-> "all_clients",
   ALL_CLIENTS_BUT_ONE |-> "all_clients_but_one"]

\* The names of the four message classes the server listens for.
SUPPORTED_MESSAGES == {"pointer-move", "pointer-remove", "draw", "clear-screen"}

\* Names a client may put on the wire: a supported one and a foreign one.
WireNames == {"draw", "chat"}
WirePayloads == {0, 1}

\* messageConstructor.fromPayload(payload): the message object of that class.
fromPayload(name, payload) == [name |-> name, payload |-> payload]

\* Message objects a caller passes in: name() and payload() read the fields.
Messages ==
  {[name |-> "draw", payload |-> 1], [name |-> "clear-screen", payload |-> 0]}
NoMessage == [name |-> "", payload |-> 0]

\* ------------------------------------------------------------- state
VARIABLES
  nullServer,          \* TRUE: built by createNull(); FALSE: by the constructor
  ioServer,            \* this._ioServer: "undefined", "started" or "closed"
  closeListeners,      \* failFastIfHttpServerClosed listeners on the node server
  socketIoConnections, \* this._socketIoConnections: own keys -> handle
  lastSentMessage,     \* this._lastSentMessage
  ioSockets,           \* the sockets the socket.io server holds open
  created,             \* handles created so far, per id
  call,                \* the method or callback that ran last, whether its id
                       \* was registered when it began, and how it ended
  fx,                  \* what that call did, in order: transport calls and events
  nullConnects,        \* history: connectNullClient calls completed on a null server
  nullFresh,           \* history: those of them that registered a new id
  nullDisconnects,     \* history: disconnectNullClient calls completed on one
  live,                \* history: handles connected and not yet disconnected
  lifecycle,           \* history: the ids whose latest lifecycle event is a connect
  lastSend             \* history: the latest send that returned normally

vars ==
  <<nullServer, ioServer, closeListeners, socketIoConnections, lastSentMessage,
    ioSockets, created, call, fx, nullConnects, nullFresh, nullDisconnects, live,
    lifecycle, lastSend>>

\* The history that only a connect or a disconnect extends.
calls == <<nullConnects, nullFresh, nullDisconnects, live>>

\* ------------------------------------------------------------- handles
\* A handle is an object: two handles made with the same id differ in sn, the
\* number of handles made with that id when it was created.
NullSocket(id, sn) == [id |-> id, isNull |-> TRUE, sn |-> sn]
IoSocket(id, sn) == [id |-> id, isNull |-> FALSE, sn |-> sn]
NoSocket == [id |-> "", isNull |-> FALSE, sn |-> 0]

\* obj[key] = value on the registry object.
Put(obj, key, value) ==
  [k \in DOMAIN obj \cup {key} |-> IF k = key THEN value ELSE obj[k]]

\* Fault injection: delete leaves the key in place.
Delete_Nothing(obj, key) == obj

\* delete obj[key] on the registry object.
Delete(obj, key) == [k \in DOMAIN obj \ {key} |-> obj[k]]

\* ------------------------------------------------------------- a running call
\* The server as a call sees it: the two fields it may assign, the transport
\* behind it, what the call has done so far, and the error it threw ("" while
\* it is still running).
Self ==
  [conns |-> socketIoConnections, last |-> lastSentMessage,
   open |-> ioSockets, fx |-> <<>>, threw |-> ""]

throw(self, error) == [self EXCEPT !.threw = error]

\* What a query of the server returns at this point of the call: to a
\* subscriber inside its handler, or at the moment the transport is called.
Seen(self) == [socketIoConnections |-> self.conns, lastSentMessage |-> self.last]

\* EventEmitter.emit: the subscribers run now, before emit returns.
emit(self, event) ==
  [self EXCEPT !.fx = Append(@, event @@ [fx |-> "event", seen |-> Seen(self)])]

\* socket.emit(name, payload): NullSocket.emit discards; a socket.io socket
\* sends to its own client.
socketEmit(self, socket, name, payload) ==
  [self EXCEPT !.fx = Append(@,
     [fx |-> "socket.emit", socket |-> socket, name |-> name, payload |-> payload,
      seen |-> Seen(self),
      to |-> IF socket.isNull THEN {} ELSE {socket} \cap self.open])]

\* socket.broadcast.emit(name, payload): NullSocket.broadcast is { emit: noOp };
\* a socket.io socket sends to every open socket but itself.
socketBroadcastEmit(self, socket, name, payload) ==
  [self EXCEPT !.fx = Append(@,
     [fx |-> "socket.broadcast.emit", socket |-> socket, name |-> name,
      payload |-> payload,
      seen |-> Seen(self),
      to |-> IF socket.isNull THEN {} ELSE self.open \ {socket}])]

\* ioServer.emit(name, payload): NullIoServer.emit discards; the socket.io
\* server sends to every open socket.
ioServerEmit(self, name, payload) ==
  [self EXCEPT !.fx = Append(@,
     [fx |-> "ioServer.emit", name |-> name, payload |-> payload,
      seen |-> Seen(self),
      to |-> IF nullServer THEN {} ELSE self.open])]

\* ------------------------------------------------------------- module functions
\* Fault injection: the record is stored but no event is emitted.
recordServerMessage_NoEvent(self, messageInfo) ==
  [self EXCEPT !.last = messageInfo]

\* Fault injection: only the first record is stored.
recordServerMessage_KeepsFirst(self, messageInfo) ==
  emit([self EXCEPT !.last = IF @ = Undefined THEN messageInfo ELSE @],
       [event |-> EVENT.SERVER_MESSAGE, messageInfo |-> messageInfo])

\* Fault injection: the event is emitted before the record is stored.
recordServerMessage_EmitsFirst(self, messageInfo) ==
  [emit(self, [event |-> EVENT.SERVER_MESSAGE, messageInfo |-> messageInfo])
     EXCEPT !.last = messageInfo]

recordServerMessage(self, messageInfo) ==
  emit([self EXCEPT !.last = messageInfo],
       [event |-> EVENT.SERVER_MESSAGE, messageInfo |-> messageInfo])

\* Fault injection: the inbound message is dropped.
handleClientMessage_Dropped(self, clientId, message) == self

handleClientMessage(self, clientId, message) ==
  emit(self, [event |-> EVENT.CLIENT_MESSAGE,
              data |-> [clientId |-> clientId, message |-> message]])

\* Fault injection: the connect event is emitted but the handle is not stored.
connectClient_NotStored(self, socket) ==
  LET key == socket.id IN
  IF key = UndefinedId THEN throw(self, "FailFast")
  ELSE emit(self, [event |-> EVENT.CLIENT_CONNECT, key |-> key])

\* Fault injection: the identifier is not checked.
connectClient_NoCheck(self, socket) ==
  LET key == socket.id IN
  emit([self EXCEPT !.conns = Put(@, key, socket)],
       [event |-> EVENT.CLIENT_CONNECT, key |-> key])

connectClient(self, socket) ==
  LET key == socket.id IN
  IF key = UndefinedId THEN throw(self, "FailFast")
  ELSE emit([self EXCEPT !.conns = Put(@, key, socket)],
            [event |-> EVENT.CLIENT_CONNECT, key |-> key])

\* Fault injection: the disconnect event is emitted but the key is not deleted.
disconnectClient_KeyKept(self, socket) ==
  LET key == socket.id IN
  IF key = UndefinedId THEN throw(self, "FailFast")
  ELSE emit(self, [event |-> EVENT.CLIENT_DISCONNECT, key |-> key])

\* Fault injection: a disconnect of an id that is not registered fails.
disconnectClient_UnlessRegistered(self, socket) ==
  LET key == socket.id IN
  IF key = UndefinedId \/ key \notin DOMAIN self.conns THEN throw(self, "FailFast")
  ELSE emit([self EXCEPT !.conns = Delete(@, key)],
            [event |-> EVENT.CLIENT_DISCONNECT, key |-> key])

disconnectClient(self, socket) ==
  LET key == socket.id IN
  IF key = UndefinedId THEN throw(self, "FailFast")
  ELSE emit([self EXCEPT !.conns = Delete(@, key)],
            [event |-> EVENT.CLIENT_DISCONNECT, key |-> key])

\* self._socketIoConnections[clientId]; NoSocket stands for undefined.
socketOf(conns, clientId) ==
  IF clientId \in DOMAIN conns THEN conns[clientId] ELSE NoSocket

\* Fault injection: the lookup returns undefined instead of failing.
lookUpSocket_NoCheck(self, clientId) ==
  [socket |-> socketOf(self.conns, clientId), self |-> self]

\* lookUpSocket: the handle registered under clientId; the call fails when
\* there is none (failFast.unlessTrue(socket !== undefined, ...)).
lookUpSocket(self, clientId) ==
  IF clientId \in DOMAIN self.conns
  THEN [socket |-> socketOf(self.conns, clientId), self |-> self]
  ELSE [socket |-> NoSocket, self |-> throw(self, "FailFast")]

\* ------------------------------------------------------------- queries
getLastSentMessage == lastSentMessage
isClientConnected(clientId) == clientId \in DOMAIN socketIoConnections
numberOfActiveConnections == Cardinality(DOMAIN socketIoConnections)

\* ------------------------------------------------------------- methods, as functions
\* Fault injection: the message goes out on the handle's broadcast channel.
sendToOneClient_Broadcast(self, clientId, message) ==
  LET found == lookUpSocket(self, clientId) IN
  IF found.self.threw # "" THEN found.self
  ELSE recordServerMessage(
         socketBroadcastEmit(found.self, found.socket, message.name, message.payload),
         [message |-> message, clientId |-> clientId,
          type |-> SEND_TYPE.ONE_CLIENT])

sendToOneClient(self, clientId, message) ==
  LET found == lookUpSocket(self, clientId) IN
  IF found.self.threw # "" THEN found.self
  ELSE recordServerMessage(
         socketEmit(found.self, found.socket, message.name, message.payload),
         [message |-> message, clientId |-> clientId,
          type |-> SEND_TYPE.ONE_CLIENT])

\* Fault injection: with nobody registered the broadcast returns at once.
broadcastToAllClients_SkipsWhenEmpty(self, message) ==
  IF ioServer = "undefined" THEN throw(self, "TypeError")
  ELSE IF DOMAIN self.conns = {} THEN self
  ELSE recordServerMessage(
         ioServerEmit(self, message.name, message.payload),
         [message |-> message, type |-> SEND_TYPE.ALL_CLIENTS])

\* Fault injection: without a transport server the emit is skipped and the
\* message recorded all the same.
broadcastToAllClients_WithoutServer(self, message) ==
  IF ioServer = "undefined"
  THEN recordServerMessage(self, [message |-> message, type |-> SEND_TYPE.ALL_CLIENTS])
  ELSE recordServerMessage(
         ioServerEmit(self, message.name, message.payload),
         [message |-> message, type |-> SEND_TYPE.ALL_CLIENTS])

broadcastToAllClients(self, message) ==
  IF ioServer = "undefined" THEN throw(self, "TypeError")
  ELSE recordServerMessage(
         ioServerEmit(self, message.name, message.payload),
         [message |-> message, type |-> SEND_TYPE.ALL_CLIENTS])

\* Fault injection: the message goes out on the server, to the excluded
\* client too.
broadcastToAllClientsButOne_ToAll(self, clientToExclude, message) ==
  LET found == lookUpSocket(self, clientToExclude) IN
  IF found.self.threw # "" THEN found.self
  ELSE recordServerMessage(
         ioServerEmit(found.self, message.name, message.payload),
         [message |-> message, clientId |-> clientToExclude,
          type |-> SEND_TYPE.ALL_CLIENTS_BUT_ONE])

broadcastToAllClientsButOne(self, clientToExclude, message) ==
  LET found == lookUpSocket(self, clientToExclude) IN
  IF found.self.threw # "" THEN found.self
  ELSE recordServerMessage(
         socketBroadcastEmit(found.self, found.socket, message.name, message.payload),
         [message |-> message, clientId |-> clientToExclude,
          type |-> SEND_TYPE.ALL_CLIENTS_BUT_ONE])

\* Fault injection: the simulated message connects its sender first.
simulateClientMessage_Connects(self, clientId, message) ==
  handleClientMessage(
    connectClient(self, NullSocket(clientId, 0)), clientId, message)

\* Fault injection: the sender is looked up in the registry first.
simulateClientMessage_Checked(self, clientId, message) ==
  LET found == lookUpSocket(self, clientId) IN
  IF found.self.threw # "" THEN found.self
  ELSE handleClientMessage(found.self, clientId, message)

simulateClientMessage(self, clientId, message) ==
  handleClientMessage(self, clientId, message)

\* The sn of the next handle made with this id (a handle whose id is undefined
\* is never stored, so it needs none).
NextSn(clientId) == IF clientId \in ClientIds THEN created[clientId] + 1 ELSE 0

connectNullClient(self, clientId) ==
  connectClient(self, NullSocket(clientId, NextSn(clientId)))

\* Fault injection: the isNull marker is not checked.
disconnectNullClient_AnyHandle(self, clientId) ==
  LET found == lookUpSocket(self, clientId) IN
  IF found.self.threw # "" THEN found.self
  ELSE disconnectClient(found.self, found.socket)

disconnectNullClient(self, clientId) ==
  LET found == lookUpSocket(self, clientId) IN
  IF found.self.threw # "" THEN found.self
  ELSE IF found.socket.isNull # TRUE THEN throw(found.self, "FailFast")
  ELSE disconnectClient(found.self, found.socket)

\* ------------------------------------------------------------- history
RECURSIVE Sum(_, _)
Sum(f, S) ==
  IF S = {} THEN 0
  ELSE LET x == CHOOSE y \in S : TRUE IN f[x] + Sum(f, S \ {x})

\* Handles created so far.
Created == Sum(created, ClientIds)

Max(S) == CHOOSE x \in S : \A y \in S : y <= x

\* The ids whose latest connect or disconnect event is a connect, after the
\* events of fxs.
LifecycleAfter(before, fxs) ==
  {id \in ClientIds :
     LET at == {i \in 1..Len(fxs) :
                  /\ fxs[i].fx = "event"
                  /\ fxs[i].event \in {EVENT.CLIENT_CONNECT, EVENT.CLIENT_DISCONNECT}
                  /\ fxs[i].key = id}
     IN IF at = {} THEN id \in before
        ELSE fxs[Max(at)].event = EVENT.CLIENT_CONNECT}

Sends == {"sendToOneClient", "broadcastToAllClients", "broadcastToAllClientsButOne"}

\* ------------------------------------------------------------- the end of a call
\* The assignments the call made stay, whether it returned or threw.
Return(op, clientId, message, self, returned) ==
  /\ socketIoConnections' = self.conns
  /\ lastSentMessage' = self.last
  /\ fx' = self.fx
  /\ call' = [op |-> op, clientId |-> clientId, message |-> message,
              registered |-> clientId \in DOMAIN socketIoConnections,
              threw |-> self.threw, returned |-> returned]
  /\ lifecycle' = LifecycleAfter(lifecycle, self.fx)
  /\ lastSend' = IF op \in Sends /\ self.threw = ""
                 THEN <<[op |-> op, clientId |-> clientId, message |-> message]>>
                 ELSE lastSend

NoId == "-"

\* ------------------------------------------------------------- construction
Init ==
  /\ nullServer \in BOOLEAN
  /\ ioServer = "undefined"
  /\ closeListeners = 0
  /\ socketIoConnections = <<>>
  /\ lastSentMessage = Undefined
  /\ ioSockets = {}
  /\ created = [id \in ClientIds |-> 0]
  /\ call = [op |-> "constructor", clientId |-> NoId, message |-> NoMessage,
             registered |-> FALSE, threw |-> "", returned |-> <<>>]
  /\ fx = <<>>
  /\ nullConnects = 0
  /\ nullFresh = 0
  /\ nullDisconnects = 0
  /\ live = {}
  /\ lifecycle = {}
  /\ lastSend = <<>>

\* ------------------------------------------------------------- public methods
\* start(): on the real server it is called once, before anything connects.
Start ==
  /\ nullServer \/ ioServer = "undefined"
  /\ ioServer' = "started"
  /\ closeListeners' = IF nullServer THEN closeListeners ELSE closeListeners + 1
  /\ Return("start", NoId, NoMessage, Self, <<>>)
  /\ UNCHANGED <<nullServer, ioSockets, created, calls>>

Stop ==
  /\ IF ioServer = "undefined"
     THEN /\ Return("stop", NoId, NoMessage, throw(Self, "TypeError"), <<>>)
          /\ UNCHANGED <<ioServer, closeListeners>>
     ELSE /\ ioServer' = "closed"
          /\ closeListeners' = IF closeListeners > 0 THEN closeListeners - 1 ELSE 0
          /\ Return("stop", NoId, NoMessage, Self, <<>>)
  /\ UNCHANGED <<nullServer, ioSockets, created, calls>>

SendToOneClient(clientId, message) ==
  /\ Return("sendToOneClient", clientId, message,
            sendToOneClient(Self, clientId, message), <<>>)
  /\ UNCHANGED <<nullServer, ioServer, closeListeners, ioSockets, created, calls>>

BroadcastToAllClients(message) ==
  /\ Return("broadcastToAllClients", NoId, message,
            broadcastToAllClients(Self, message), <<>>)
  /\ UNCHANGED <<nullServer, ioServer, closeListeners, ioSockets, created, calls>>

BroadcastToAllClientsButOne(clientToExclude, message) ==
  /\ Return("broadcastToAllClientsButOne", clientToExclude, message,
            broadcastToAllClientsButOne(Self, clientToExclude, message), <<>>)
  /\ UNCHANGED <<nullServer, ioServer, closeListeners, ioSockets, created, calls>>

GetLastSentMessage ==
  /\ Return("getLastSentMessage", NoId, NoMessage, Self, <<getLastSentMessage>>)
  /\ UNCHANGED <<nullServer, ioServer, closeListeners, ioSockets, created, calls>>

IsClientConnected(clientId) ==
  /\ Return("isClientConnected", clientId, NoMessage, Self,
            <<isClientConnected(clientId)>>)
  /\ UNCHANGED <<nullServer, ioServer, closeListeners, ioSockets, created, calls>>

NumberOfActiveConnections ==
  /\ Return("numberOfActiveConnections", NoId, NoMessage, Self,
            <<numberOfActiveConnections>>)
  /\ UNCHANGED <<nullServer, ioServer, closeListeners, ioSockets, created, calls>>

SimulateClientMessage(clientId, message) ==
  /\ Return("simulateClientMessage", clientId, message,
            simulateClientMessage(Self, clientId, message), <<>>)
  /\ UNCHANGED <<nullServer, ioServer, closeListeners, ioSockets, created, calls>>

ConnectNullClient(clientId) ==
  LET after == connectNullClient(Self, clientId) IN
  /\ clientId \in ClientIds => Created < MaxSockets
  /\ created' = IF clientId \in ClientIds
                THEN [created EXCEPT ![clientId] = @ + 1] ELSE created
  /\ nullConnects' = IF nullServer /\ after.threw = "" THEN nullConnects + 1
                     ELSE nullConnects
  /\ nullFresh' = IF nullServer /\ after.threw = "" /\ ~isClientConnected(clientId)
                  THEN nullFresh + 1 ELSE nullFresh
  /\ live' = IF after.threw = ""
             THEN live \cup {NullSocket(clientId, NextSn(clientId))}
             ELSE live
  /\ Return("connectNullClient", clientId, NoMessage, after, <<>>)
  /\ UNCHANGED <<nullServer, ioServer, closeListeners, ioSockets, nullDisconnects>>

DisconnectNullClient(clientId) ==
  LET after == disconnectNullClient(Self, clientId) IN
  /\ nullDisconnects' = IF nullServer /\ after.threw = "" THEN nullDisconnects + 1
                        ELSE nullDisconnects
  /\ live' = IF after.threw = "" THEN live \ {socketOf(socketIoConnections, clientId)}
             ELSE live
  /\ Return("disconnectNullClient", clientId, NoMessage, after, <<>>)
  /\ UNCHANGED <<nullServer, ioServer, closeListeners, ioSockets, created,
                 nullConnects, nullFresh>>

\* ------------------------------------------------------------- transport callbacks
\* The "connection" handler of trackSocketIoConnections.
onConnection(self, socket) == connectClient(self, socket)

\* The "disconnect" handler that the "connection" handler put on the socket.
onDisconnect(self, socket) == disconnectClient(self, socket)

\* Fault injection: a listener for every name on the wire.
onClientMessage_AnyName(self, socket, name, payload) ==
  handleClientMessage(self, socket.id, fromPayload(name, payload))

\* The listeners listenForClientMessages puts on a socket: one per supported
\* message, none for any other name.
onClientMessage(self, socket, name, payload) ==
  IF name \in SUPPORTED_MESSAGES
  THEN handleClientMessage(self, socket.id, fromPayload(name, payload))
  ELSE self

\* Fault injection: stop() leaves the listener on the node server.
failFastIfHttpServerClosed_NotRemoved(self) ==
  IF ioServer # "undefined" THEN throw(self, "Error") ELSE self

\* The listener start() put on the node server, when it is still there.
failFastIfHttpServerClosed(self) ==
  IF closeListeners > 0 THEN throw(self, "Error") ELSE self

\* socket.io accepts a connection: the id is one no open socket has.
OnConnection(clientId) ==
  LET socket == IoSocket(clientId, NextSn(clientId)) IN
  /\ ~nullServer
  /\ ioServer = "started"
  /\ \A s \in ioSockets : s.id # clientId
  /\ Created < MaxSockets
  /\ created' = [created EXCEPT ![clientId] = @ + 1]
  /\ ioSockets' = ioSockets \cup {socket}
  /\ live' = live \cup {socket}
  /\ Return("on connection", clientId, NoMessage,
            onConnection([Self EXCEPT !.open = ioSockets \cup {socket}], socket), <<>>)
  /\ UNCHANGED <<nullServer, ioServer, closeListeners, nullConnects, nullFresh,
                 nullDisconnects>>

\* An open socket closes (its client left, or stop() closed the server).
OnDisconnect(socket) ==
  /\ socket \in ioSockets
  /\ ioSockets' = ioSockets \ {socket}
  /\ live' = live \ {socket}
  /\ Return("on disconnect", socket.id, NoMessage,
            onDisconnect([Self EXCEPT !.open = ioSockets \ {socket}], socket), <<>>)
  /\ UNCHANGED <<nullServer, ioServer, closeListeners, created, nullConnects,
                 nullFresh, nullDisconnects>>

\* A client sends a message on its open socket.
OnClientMessage(socket, name, payload) ==
  /\ socket \in ioSockets
  /\ Return("on message", socket.id, fromPayload(name, payload),
            onClientMessage(Self, socket, name, payload), <<>>)
  /\ UNCHANGED <<nullServer, ioServer, closeListeners, ioSockets, created, calls>>

\* The node HTTP server emits "close" (NullHttpServer's never does).
OnHttpClose ==
  /\ ~nullServer
  /\ Return("on close", NoId, NoMessage, failFastIfHttpServerClosed(Self), <<>>)
  /\ UNCHANGED <<nullServer, ioServer, closeListeners, ioSockets, created, calls>>

\* ------------------------------------------------------------- specification
Next ==
  \/ Start
  \/ Stop
  \/ \E clientId \in ClientIds, message \in Messages :
       SendToOneClient(clientId, message)
  \/ \E message \in Messages : BroadcastToAllClients(message)
  \/ \E clientId \in ClientIds, message \in Messages :
       BroadcastToAllClientsButOne(clientId, message)
  \/ GetLastSentMessage
  \/ \E clientId \in ClientIds : IsClientConnected(clientId)
  \/ NumberOfActiveConnections
  \/ \E clientId \in Ids, message \in Messages :
       SimulateClientMessage(clientId, message)
  \/ \E clientId \in Ids : ConnectNullClient(clientId)
  \/ \E clientId \in ClientIds : DisconnectNullClient(clientId)
  \/ \E clientId \in ClientIds : OnConnection(clientId)
  \/ \E socket \in ioSockets : OnDisconnect(socket)
  \/ \E socket \in ioSockets, name \in WireNames, payload \in WirePayloads :
       OnClientMessage(socket, name, payload)
  \/ OnHttpClose

Spec == Init /\ [][Next]_vars

\* ------------------------------------------------------------- reading a call
\* The transport calls and the events among what a call did, in order.
TransportCalls(fxs) == SelectSeq(fxs, LAMBDA e : e.fx # "event")
Events(fxs) == SelectSeq(fxs, LAMBDA e : e.fx = "event")

\* The handles an emit reached: the handle emit was called on, and the
\* sockets a broadcast of the transport went to.
Reached(fxs) ==
  UNION {IF fxs[i].fx = "socket.emit" THEN {fxs[i].socket} ELSE fxs[i].to :
           i \in {j \in 1..Len(fxs) : fxs[j].fx # "event"}}

Registered == DOMAIN socketIoConnections
IdSends == {"sendToOneClient", "broadcastToAllClientsButOne"}

\* The record a send is to leave, from the call's arguments.
SendRecord(send) ==
  CASE send.op = "sendToOneClient" ->
         [message |-> send.message, clientId |-> send.clientId,
          type |-> "one_client"]
    [] send.op = "broadcastToAllClients" ->
         [message |-> send.message, type |-> "all_clients"]
    [] send.op = "broadcastToAllClientsButOne" ->
         [message |-> send.message, clientId |-> send.clientId,
          type |-> "all_clients_but_one"]

\* ------------------------------------------------------------- C1
\* C1 as stated: on a null server numberOfActiveConnections() is the number of
\* connectNullClient calls made (counting only those that returned) minus the
\* number of disconnectNullClient calls that completed, whatever ids the calls
\* use.
C1_ConnectsMinusDisconnects ==
  nullServer => numberOfActiveConnections = nullConnects - nullDisconnects

\* C1 amended: on a null server numberOfActiveConnections() is the number of
\* connectNullClient calls that completed with an id not registered at the
\* time of the call, minus the number of disconnectNullClient calls that
\* completed.
C1_FreshConnectsMinusDisconnects ==
  nullServer => numberOfActiveConnections = nullFresh - nullDisconnects

\* Two ids connected, then one of them disconnected.
C1_Witness ==
  /\ nullServer
  /\ nullFresh = 2
  /\ nullDisconnects = 1
  /\ call.op = "disconnectNullClient"
  /\ call.threw = ""
  /\ numberOfActiveConnections = 1

\* ------------------------------------------------------------- C2
\* C2 as stated: an id is registered exactly when a connection with that id
\* has had its connect event and not yet its own disconnect event.
C2_RegisteredIffLiveConnection ==
  \A id \in ClientIds : isClientConnected(id) <=> \E socket \in live : socket.id = id

\* C2 amended: an id is registered exactly when the latest connect or
\* disconnect event for that id is a connect event.
C2_RegisteredIffLatestEventIsConnect ==
  \A id \in ClientIds : isClientConnected(id) <=> id \in lifecycle

\* The transport has just reported a disconnect while another id stays
\* registered.
C2_Witness ==
  /\ call.op = "on disconnect"
  /\ ~isClientConnected(call.clientId)
  /\ \E id \in ClientIds : isClientConnected(id) /\ id \in lifecycle

\* ------------------------------------------------------------- C3
\* C3: sendToOneClient and broadcastToAllClientsButOne with an id that is not
\* registered fail, call no transport handle, emit no event and leave the last
\* SendRecord as it was.
C3_UnregisteredSendFails ==
  [][(call'.op \in IdSends /\ call'.clientId \notin Registered)
       => /\ call'.threw = "FailFast"
          /\ fx' = <<>>
          /\ lastSentMessage' = lastSentMessage]_vars

\* A send to an id that was connected and then disconnected has failed, after
\* an earlier send had left a record.
C3_Witness ==
  /\ call.op \in IdSends
  /\ call.threw = "FailFast"
  /\ created[call.clientId] > 0
  /\ call.clientId \notin Registered
  /\ lastSentMessage # Undefined

\* ------------------------------------------------------------- C4
\* C4: sendToOneClient(id, m) with id registered makes exactly one emit, of
\* (m.name(), m.payload()), on the handle registered under id and reaches no
\* other handle; afterwards getLastSentMessage() is
\* {message: m, clientId: id, type: ONE_CLIENT}.
C4_SendToOneClient ==
  [][(call'.op = "sendToOneClient" /\ call'.clientId \in Registered)
       => LET id == call'.clientId
              m == call'.message
              sent == TransportCalls(fx')
          IN /\ call'.threw = ""
             /\ Len(sent) = 1
             /\ sent[1].fx = "socket.emit"
             /\ sent[1].socket = socketIoConnections[id]
             /\ sent[1].name = m.name
             /\ sent[1].payload = m.payload
             /\ Reached(fx') = {socketIoConnections[id]}
             /\ getLastSentMessage' =
                  [message |-> m, clientId |-> id, type |-> SEND_TYPE.ONE_CLIENT]]_vars

\* A send to one of two registered clients has returned.
C4_Witness ==
  /\ call.op = "sendToOneClient"
  /\ call.threw = ""
  /\ Cardinality(Registered) = 2
  /\ Reached(fx) = {socketIoConnections[call.clientId]}

\* ------------------------------------------------------------- C5
\* C5 as stated: broadcastToAllClientsButOne(x, m) with x registered reaches
\* every registered client other than x and never x; afterwards
\* getLastSentMessage() is {message: m, clientId: x, type: ALL_CLIENTS_BUT_ONE}.
C5_ReachesEveryOtherRegisteredClient ==
  [][(call'.op = "broadcastToAllClientsButOne" /\ call'.clientId \in Registered)
       => LET x == call'.clientId IN
          /\ call'.threw = ""
          /\ Reached(fx') = {socketIoConnections[id] : id \in Registered \ {x}}
          /\ getLastSentMessage' =
               [message |-> call'.message, clientId |-> x,
                type |-> SEND_TYPE.ALL_CLIENTS_BUT_ONE]]_vars

\* C5 amended: broadcastToAllClientsButOne(x, m) with x registered makes
\* exactly one call, broadcast.emit(m.name(), m.payload()) on the handle
\* registered under x, and never reaches that handle; through a socket.io
\* handle it reaches every other socket the transport holds open, through a
\* NullSocket it reaches nobody; afterwards getLastSentMessage() is
\* {message: m, clientId: x, type: ALL_CLIENTS_BUT_ONE}.
C5_BroadcastsThroughExcludedHandle ==
  [][(call'.op = "broadcastToAllClientsButOne" /\ call'.clientId \in Registered)
       => LET x == call'.clientId
              m == call'.message
              handle == socketIoConnections[x]
              sent == TransportCalls(fx')
          IN /\ call'.threw = ""
             /\ Len(sent) = 1
             /\ sent[1].fx = "socket.broadcast.emit"
             /\ sent[1].socket = handle
             /\ sent[1].name = m.name
             /\ sent[1].payload = m.payload
             /\ handle \notin Reached(fx')
             /\ Reached(fx') = IF handle.isNull THEN {} ELSE ioSockets \ {handle}
             /\ getLastSentMessage' =
                  [message |-> m, clientId |-> x,
                   type |-> SEND_TYPE.ALL_CLIENTS_BUT_ONE]]_vars

\* A broadcast that excludes one socket.io client has reached the other one.
C5_Witness ==
  /\ call.op = "broadcastToAllClientsButOne"
  /\ call.threw = ""
  /\ Cardinality(Registered) = 2
  /\ ~socketIoConnections[call.clientId].isNull
  /\ Reached(fx) = {socketIoConnections[id] : id \in Registered \ {call.clientId}}

\* ------------------------------------------------------------- C6
\* C6: once start() has run, broadcastToAllClients(m) returns and
\* getLastSentMessage() is then {message: m, type: ALL_CLIENTS}, a record
\* without clientId, whoever is registered and whatever was recorded before.
C6_BroadcastToAllClientsRecord ==
  [][(call'.op = "broadcastToAllClients" /\ ioServer # "undefined")
       => /\ call'.threw = ""
          /\ getLastSentMessage' =
               [message |-> call'.message, type |-> SEND_TYPE.ALL_CLIENTS]]_vars

\* A broadcast has returned while nobody is registered.
C6_Witness ==
  /\ call.op = "broadcastToAllClients"
  /\ call.threw = ""
  /\ Registered = {}
  /\ lastSentMessage = [message |-> call.message, type |-> SEND_TYPE.ALL_CLIENTS]

\* ------------------------------------------------------------- C7
\* C7: a send that returns stores the one record of that send and emits
\* exactly one event, SERVER_MESSAGE, whose payload is the record that
\* getLastSentMessage() returns right after the call.
C7_OneRecordOneEvent ==
  [][(call'.op \in Sends /\ call'.threw = "")
       => LET events == Events(fx') IN
          /\ Len(events) = 1
          /\ events[1].event = EVENT.SERVER_MESSAGE
          /\ events[1].messageInfo = getLastSentMessage'
          /\ getLastSentMessage' = SendRecord(call')]_vars

\* A broadcast to all but one has returned with its one event.
C7_Witness ==
  /\ call.op = "broadcastToAllClientsButOne"
  /\ call.threw = ""
  /\ Len(Events(fx)) = 1
  /\ Events(fx)[1].messageInfo = lastSentMessage

\* ------------------------------------------------------------- C8
\* C8: getLastSentMessage() is the record of the latest send that returned,
\* and undefined while no send has returned; failed sends, connects,
\* disconnects and inbound messages in between leave it alone.
C8_OnlyLastRecordKept ==
  getLastSentMessage = IF lastSend = <<>> THEN Undefined ELSE SendRecord(lastSend[1])

\* A send has failed after an earlier broadcast had left its record.
C8_Witness ==
  /\ call.op \in IdSends
  /\ call.threw # ""
  /\ lastSend # <<>>
  /\ lastSend[1].op = "broadcastToAllClients"
  /\ lastSentMessage = SendRecord(lastSend[1])

\* ------------------------------------------------------------- C9
\* C9: simulateClientMessage(id, m) for a registered id emits exactly one
\* event, CLIENT_MESSAGE with {clientId: id, message: m}, and does nothing else.
C9_SimulatedMessageEmitted ==
  [][(call'.op = "simulateClientMessage" /\ call'.clientId \in Registered)
       => /\ call'.threw = ""
          /\ Len(fx') = 1
          /\ fx'[1].fx = "event"
          /\ fx'[1].event = EVENT.CLIENT_MESSAGE
          /\ fx'[1].data = [clientId |-> call'.clientId, message |-> call'.message]]_vars

\* A message was simulated for a registered client.
C9_Witness ==
  /\ call.op = "simulateClientMessage"
  /\ call.clientId \in Registered
  /\ Len(fx) = 1
  /\ fx[1].data.message = call.message

\* ------------------------------------------------------------- C10
Lookups == IdSends \cup {"disconnectNullClient"}

\* C10: a completed disconnectNullClient(id) leaves id unregistered; while id
\* is unregistered every method that looks it up fails; on a null server only
\* connectNullClient(id) registers it again, and once it has, id is registered
\* and the sends to it return.
C10_RegistryForgets ==
  [][\A id \in ClientIds :
       /\ (call'.op = "disconnectNullClient" /\ call'.clientId = id /\ call'.threw = "")
            => ~isClientConnected(id)'
       /\ (call'.op \in Lookups /\ call'.clientId = id /\ ~isClientConnected(id))
            => call'.threw = "FailFast"
       /\ (nullServer /\ ~isClientConnected(id) /\ isClientConnected(id)')
            => (call'.op = "connectNullClient" /\ call'.clientId = id)
       /\ (call'.op = "connectNullClient" /\ call'.clientId = id)
            => (call'.threw = "" /\ isClientConnected(id)')
       /\ (call'.op \in IdSends /\ call'.clientId = id /\ isClientConnected(id))
            => call'.threw = ""]_vars

\* On a null server the only id ever connected was disconnected, and a second
\* disconnectNullClient of it has failed.
C10_Witness ==
  /\ nullServer
  /\ call.op = "disconnectNullClient"
  /\ call.threw = "FailFast"
  /\ created[call.clientId] = 1
  /\ \A id \in ClientIds \ {call.clientId} : created[id] = 0
  /\ nullDisconnects = 1

\* ------------------------------------------------------------- C11
Connects == {"connectNullClient", "on connection"}

\* The handle a connect has just made for id.
Connecting(op, id) ==
  IF op = "connectNullClient" THEN NullSocket(id, created[id] + 1)
  ELSE IoSocket(id, created[id] + 1)

\* C11: a connect with a defined id registers the handle under that id, leaves
\* every other entry alone and emits exactly one event, CLIENT_CONNECT with the
\* id; a connect with an undefined id fails, leaves the registry unchanged and
\* emits nothing.
C11_ConnectRegistersOrFails ==
  [][call'.op \in Connects
       => LET id == call'.clientId IN
          IF id # UndefinedId
          THEN /\ call'.threw = ""
               /\ socketIoConnections' =
                    Put(socketIoConnections, id, Connecting(call'.op, id))
               /\ Len(fx') = 1
               /\ fx'[1].fx = "event"
               /\ fx'[1].event = EVENT.CLIENT_CONNECT
               /\ fx'[1].key = id
          ELSE /\ call'.threw = "FailFast"
               /\ socketIoConnections' = socketIoConnections
               /\ fx' = <<>>]_vars

\* connectNullClient(undefined) has failed while a client is registered.
C11_Witness ==
  /\ call.op = "connectNullClient"
  /\ call.clientId = UndefinedId
  /\ call.threw = "FailFast"
  /\ Registered # {}
  /\ fx = <<>>

\* ------------------------------------------------------------- C12
\* C12: a disconnect notification for id, from the transport's "disconnect"
\* callback or from a disconnectNullClient that returned, leaves id out of the
\* registry, removes no other id and emits exactly one event,
\* CLIENT_DISCONNECT with id; the transport's callback does so without
\* failing, whether or not id is registered when it runs.
C12_DisconnectRemovesAndEmits ==
  [][(call'.op = "on disconnect" \/
      (call'.op = "disconnectNullClient" /\ call'.threw = ""))
       => LET id == call'.clientId IN
          /\ call'.threw = ""
          /\ id \notin DOMAIN socketIoConnections'
          /\ socketIoConnections' = Delete(socketIoConnections, id)
          /\ Len(fx') = 1
          /\ fx'[1].fx = "event"
          /\ fx'[1].event = EVENT.CLIENT_DISCONNECT
          /\ fx'[1].key = id]_vars

\* The transport has reported the disconnect of a socket whose id was no
\* longer registered.
C12_Witness ==
  /\ call.op = "on disconnect"
  /\ ~call.registered
  /\ call.threw = ""
  /\ Len(fx) = 1
  /\ fx[1].key = call.clientId

\* ------------------------------------------------------------- C13
\* C13: disconnectNullClient(id) fails when id is not registered, and fails
\* when the handle registered under id is not a NullSocket; either way the
\* registry is unchanged and no event is emitted.
C13_DisconnectNullClientFailsFast ==
  [][(call'.op = "disconnectNullClient"
      /\ (isClientConnected(call'.clientId)
            => socketIoConnections[call'.clientId].isNull # TRUE))
       => /\ call'.threw = "FailFast"
          /\ socketIoConnections' = socketIoConnections
          /\ fx' = <<>>]_vars

\* disconnectNullClient has failed for the id of a socket.io connection, which
\* stays registered.
C13_Witness ==
  /\ call.op = "disconnectNullClient"
  /\ call.threw = "FailFast"
  /\ call.registered
  /\ isClientConnected(call.clientId)
  /\ ~socketIoConnections[call.clientId].isNull
  /\ fx = <<>>

\* ------------------------------------------------------------- C14
Queries == {"getLastSentMessage", "isClientConnected", "numberOfActiveConnections"}
Disconnects == {"disconnectNullClient", "on disconnect"}

\* C14: only a connect or a disconnect changes the registry: the three sends,
\* simulateClientMessage and the three queries leave the registered ids and
\* their handles as they were, whether they return or fail; the queries also
\* leave the last SendRecord as it was and emit no event.
C14_RegistryFrame ==
  [][/\ (call'.op \in Sends \cup Queries \cup {"simulateClientMessage"})
          => socketIoConnections' = socketIoConnections
     /\ (socketIoConnections' # socketIoConnections)
          => call'.op \in Connects \cup Disconnects
     /\ (call'.op \in Queries)
          => /\ lastSentMessage' = lastSentMessage
             /\ fx' = <<>>
             /\ call'.threw = ""]_vars

\* isClientConnected has answered true while two clients are registered and a
\* send has been recorded.
C14_Witness ==
  /\ call.op = "isClientConnected"
  /\ call.returned = <<TRUE>>
  /\ Cardinality(Registered) = 2
  /\ lastSentMessage # Undefined
  /\ fx = <<>>

\* ------------------------------------------------------------- C15
\* C15: simulateClientMessage(id, m) returns and emits exactly one event,
\* CLIENT_MESSAGE with {clientId: id, message: m}, for every id: registered,
\* never connected, disconnected, or undefined.
C15_SimulateNeverFilters ==
  [][call'.op = "simulateClientMessage"
       => /\ call'.threw = ""
          /\ Len(Events(fx')) = 1
          /\ Events(fx')[1].event = EVENT.CLIENT_MESSAGE
          /\ Events(fx')[1].data =
               [clientId |-> call'.clientId, message |-> call'.message]]_vars

\* A message was simulated for an id that had been connected and is no longer
\* registered.
C15_Witness ==
  /\ call.op = "simulateClientMessage"
  /\ call.threw = ""
  /\ call.clientId \in ClientIds
  /\ created[call.clientId] > 0
  /\ ~call.registered
  /\ Len(fx) = 1
  /\ fx[1].data.clientId = call.clientId

\* ------------------------------------------------------------- C16
\* C16: a wire message on a connection accepted after start() whose name is
\* one of the four supported names produces exactly one event, CLIENT_MESSAGE
\* with the connection's id and the decoded message; a wire message with any
\* other name produces no event and no error.
C16_DispatchBySupportedName ==
  [][call'.op = "on message"
       => /\ call'.threw = ""
          /\ TransportCalls(fx') = <<>>
          /\ IF call'.message.name \in SUPPORTED_MESSAGES
             THEN /\ Len(Events(fx')) = 1
                  /\ Events(fx')[1].event = EVENT.CLIENT_MESSAGE
                  /\ Events(fx')[1].data.clientId = call'.clientId
                  /\ Events(fx')[1].data.message =
                       fromPayload(call'.message.name, call'.message.payload)
                  /\ \E socket \in ioSockets : socket.id = call'.clientId
             ELSE Events(fx') = <<>>]_vars

\* A client has sent a message with a foreign name on its open socket; nothing
\* was emitted.
C16_Witness ==
  /\ call.op = "on message"
  /\ call.message.name \notin SUPPORTED_MESSAGES
  /\ call.threw = ""
  /\ fx = <<>>
  /\ \E socket \in ioSockets : socket.id = call.clientId

SeenConnected(e, id) == id \in DOMAIN e.seen.socketIoConnections
SeenLastSentMessage(e) == e.seen.lastSentMessage

\* C18: the state is updated before its event is emitted: the handler of
\* CLIENT_CONNECT(id) reads isClientConnected(id) true, the handler of
\* CLIENT_DISCONNECT(id) reads it false, the handler of SERVER_MESSAGE(r) reads
\* getLastSentMessage() r; and in a send the transport is called first, while
\* the last SendRecord is still the one from before the call, then the record
\* is stored and the event emitted.
C18_StateBeforeEvent ==
  [][/\ \A i \in 1..Len(fx') :
          LET e == fx'[i] IN
          e.fx = "event" =>
            /\ e.event = EVENT.CLIENT_CONNECT => SeenConnected(e, e.key)
            /\ e.event = EVENT.CLIENT_DISCONNECT => ~SeenConnected(e, e.key)
            /\ e.event = EVENT.SERVER_MESSAGE => SeenLastSentMessage(e) = e.messageInfo
     /\ (call'.op \in Sends /\ call'.threw = "")
          => /\ Len(fx') = 2
             /\ fx'[1].fx # "event"
             /\ SeenLastSentMessage(fx'[1]) = lastSentMessage
             /\ fx'[2].fx = "event"
             /\ fx'[2].event = EVENT.SERVER_MESSAGE
             /\ SeenLastSentMessage(fx'[2]) = SendRecord(call')]_vars

\* A send to one client has replaced an earlier record: the transport was
\* called with the earlier record still in place, the event was emitted with
\* the new one.
C18_Witness ==
  /\ call.op = "sendToOneClient"
  /\ call.threw = ""
  /\ Len(fx) = 2
  /\ SeenLastSentMessage(fx[1]) # Undefined
  /\ SeenLastSentMessage(fx[1]) # lastSentMessage
  /\ SeenLastSentMessage(fx[2]) = lastSentMessage

\* ------------------------------------------------------------- C19
\* The methods that never read this._ioServer.
StartFree ==
  {"connectNullClient", "disconnectNullClient", "sendToOneClient",
   "broadcastToAllClientsButOne", "simulateClientMessage"}

\* Whether such a call returns, from its arguments and the registry alone.
Returns(op, id) ==
  CASE op = "connectNullClient" -> id # UndefinedId
    [] op = "disconnectNullClient" ->
         isClientConnected(id) /\ socketIoConnections[id].isNull = TRUE
    [] op \in IdSends -> isClientConnected(id)
    [] op = "simulateClientMessage" -> TRUE

\* C19: before start() has been called broadcastToAllClients and stop() fail,
\* and the failed broadcast stores no SendRecord and emits no event;
\* connectNullClient, disconnectNullClient, sendToOneClient,
\* broadcastToAllClientsButOne and simulateClientMessage return or fail, and
\* change the registry and the last SendRecord, as their arguments and the
\* registry alone determine, started or not.
C19_DependenceOnStart ==
  [][/\ (ioServer = "undefined" /\ call'.op \in {"broadcastToAllClients", "stop"})
          => /\ call'.threw # ""
             /\ lastSentMessage' = lastSentMessage
             /\ fx' = <<>>
     /\ (call'.op \in StartFree)
          => LET op == call'.op
                 id == call'.clientId
                 ok == Returns(op, id)
             IN /\ call'.threw = "" <=> ok
                /\ socketIoConnections' =
                     IF ~ok THEN socketIoConnections
                     ELSE IF op = "connectNullClient"
                       THEN Put(socketIoConnections, id, Connecting(op, id))
                     ELSE IF op = "disconnectNullClient"
                       THEN Delete(socketIoConnections, id)
                     ELSE socketIoConnections
                /\ lastSentMessage' =
                     IF ok /\ op \in IdSends THEN SendRecord(call')
                     ELSE lastSentMessage
                /\ Len(Events(fx')) = IF ok THEN 1 ELSE 0
                /\ Len(TransportCalls(fx')) = IF ok /\ op \in IdSends THEN 1 ELSE 0]_vars

\* Before any start(), a send to a connected client has left its record and a
\* broadcast to all clients has then failed.
C19_Witness ==
  /\ ioServer = "undefined"
  /\ call.op = "broadcastToAllClients"
  /\ call.threw = "TypeError"
  /\ fx = <<>>
  /\ lastSend # <<>>
  /\ lastSend[1].op = "sendToOneClient"
  /\ lastSentMessage = SendRecord(lastSend[1])

====
